---- MODULE Spec2Model ----
(***************************************************************************)
(* A model of simple-caches (src/src/index.ts): the two in-memory caches   *)
(* CacheTTL (a Map whose entries expire) and CacheLRU (a Map of bounded    *)
(* size).  Both classes extend the built-in Map, which keeps its entries   *)
(* in insertion order; a Map is modelled as a sequence of records          *)
(* [k |-> key, v |-> value] with pairwise distinct keys.                   *)
(***************************************************************************)
EXTENDS Integers, Sequences, FiniteSets, TLC

\* ------------------------------------------------------------------ bounds
MaxTime == 5        \* Date.now() runs over 1..MaxTime
MaxTTL == 2         \* ttl arguments run over -MaxTTL..MaxTTL
MaxInterval == 2    \* the CacheTTL constructor argument runs over 0..MaxInterval
MaxCapacity == 3    \* the CacheLRU constructor argument runs over 0..MaxCapacity

StartTime == 1
Keys == {"a", "b"}
Vals == 1..2
TTLs == (0 - MaxTTL)..MaxTTL
Intervals == 0..MaxInterval
NoKey == "-"
LRUKeys == 1..(MaxCapacity + 1)
LRUVals == {1, 2, 3}
Capacities == 0..MaxCapacity

\* JavaScript's undefined, as a Map lookup returns it for a missing key.  It
\* is falsy, like the number 0, and no value of Vals.
Undefined == 0

VARIABLES
    now,                 \* Date.now()
    interval,            \* CacheTTL.interval
    entries,             \* the CacheTTL Map itself (super)
    expirationTimes,     \* CacheTTL.expirationTimes, a Map key -> timestamp
    expirationInterval,  \* CacheTTL.expirationInterval: a timer id, 0 = undefined
    timers,              \* the interval timers scheduled in the event loop
    last,                \* the last CacheTTL call and what it returned
    track                \* history: one set call whose entry is being followed

ttlVars == <<now, interval, entries, expirationTimes, expirationInterval,
             timers, last, track>>

VARIABLES
    capacity,   \* CacheLRU.capacity
    lru,        \* the CacheLRU Map itself (super), oldest entry first
    lruLast,    \* the last CacheLRU call and what it returned
    setRun      \* history: the keys of the set calls made since the cache was
                \* empty, while they are distinct and nothing else was called

lruVars == <<capacity, lru, lruLast, setRun>>

VARIABLES
    remote,     \* the remote store behind CacheREDIS.redis: a set of
                \* [pk |-> physical key, text |-> stored text, ex |-> ttl, 0 = none]
    redisLast   \* the last CacheREDIS call and how its promise settled

redisVars == <<remote, redisLast>>

vars == <<ttlVars, lruVars, redisVars>>

\* -------------------------------------------------------- the built-in Map
MapKeys(m) == {m[i].k : i \in 1..Len(m)}

MapHas(m, key) == key \in MapKeys(m)

MapGet(m, key) ==
    IF MapHas(m, key)
    THEN m[CHOOSE i \in 1..Len(m) : m[i].k = key].v
    ELSE Undefined

\* Map.prototype.set: an existing key keeps its place, a new key goes last.
MapSet(m, key, value) ==
    IF MapHas(m, key)
    THEN [i \in 1..Len(m) |-> IF m[i].k = key THEN [k |-> key, v |-> value] ELSE m[i]]
    ELSE Append(m, [k |-> key, v |-> value])

MapDeleteKeys(m, keys) ==
    LET keep(e) == e.k \notin keys IN SelectSeq(m, keep)

MapDelete(m, key) == MapDeleteKeys(m, {key})

\* ---------------------------------------------------------------- CacheTTL
Call(op, key, ret, ok) == [op |-> op, key |-> key, ret |-> ret, ok |-> ok]

NoTrack == [key |-> NoKey, val |-> 0, ttl |-> 0, at |-> 0]

\* (mutant) a sweep that is one time unit late in seeing an expiry
SweepExpiredLate(expirationTime, t) == t > expirationTime + 1

\* (mutant) a sweep that takes an entry as expired at its expiry time already
SweepExpiredAtExpiry(expirationTime, t) == t >= expirationTime

\* `if (now > ttl)` of the sweep callback
SweepExpired(expirationTime, t) == t > expirationTime

\* (mutant) a get that takes an entry as expired at its expiry time already
GetExpiredAtExpiry(expirationTime, t) == expirationTime # 0 /\ t >= expirationTime

\* `if (expirationTime && Date.now() > expirationTime)` of get: a missing
\* timestamp (undefined) and the timestamp 0 are both falsy.
GetExpired(expirationTime, t) == expirationTime # 0 /\ t > expirationTime

\* setInterval(callback, this.interval): a new timer, first due one period on
SetInterval(tms, t, period) ==
    LET id == CHOOSE n \in 1..(Cardinality(tms) + 1) : \A x \in tms : x.id # n
    IN  [id |-> id, timers |-> tms \cup {[id |-> id, due |-> t + period]}]

ClearInterval(tms, id) == {x \in tms : x.id # id}

\* (mutant) startExpirationInterval without the test for a held timer
StartExpirationIntervalAgain(handle, tms, times) ==
    IF Len(times) > 0 /\ interval > 0
    THEN LET s == SetInterval(tms, now, interval)
         IN  [handle |-> s.id, timers |-> s.timers]
    ELSE [handle |-> handle, timers |-> tms]

\* startExpirationInterval: the handle and the timers it leaves
StartExpirationInterval(handle, tms, times) ==
    IF handle = 0 /\ Len(times) > 0 /\ interval > 0
    THEN LET s == SetInterval(tms, now, interval)
         IN  [handle |-> s.id, timers |-> s.timers]
    ELSE [handle |-> handle, timers |-> tms]

\* a CacheTTL that was constructed with the given interval and not used yet
TTLNew(i) ==
    /\ now = StartTime
    /\ interval = i
    /\ entries = <<>>
    /\ expirationTimes = <<>>
    /\ expirationInterval = 0
    /\ timers = {}
    /\ last = Call("new", NoKey, 0, FALSE)
    /\ track = NoTrack

\* a CacheLRU that was constructed with the given capacity and not used yet
LRUNew(c) ==
    /\ capacity = c
    /\ lru = <<>>
    /\ lruLast = Call("new", 0, 0, FALSE)
    /\ setRun = <<>>

\* The promise a CacheREDIS call returns: failed = a remote call threw,
\* rejected = the error reached the caller; ret, ok and list hold the value
\* it resolved to (a value, a boolean, a list of values).
Reply(op, failed, rejected, ret, ok, list) ==
    [op |-> op, failed |-> failed, rejected |-> rejected,
     ret |-> ret, ok |-> ok, list |-> list]

\* a CacheREDIS that was constructed over the given remote store and not used yet
RedisNew(store) ==
    /\ remote = store
    /\ redisLast = Reply("new", FALSE, FALSE, 0, FALSE, <<>>)

\* new CacheTTL(interval), beside caches of the other classes that are never used
TTLInit == (\E i \in Intervals : TTLNew(i)) /\ LRUNew(0) /\ RedisNew({})

\* new CacheLRU(capacity), beside caches of the other classes that are never used
LRUInit == (\E c \in Capacities : LRUNew(c)) /\ TTLNew(0) /\ RedisNew({})

\* set(key, data, ttl = this.interval)
TTLSet(key, data, ttl) ==
    LET times == MapSet(expirationTimes, key, now + ttl)
        s == StartExpirationInterval(expirationInterval, timers, times)
        rec == [key |-> key, val |-> data, ttl |-> ttl, at |-> now]
    IN  /\ entries' = MapSet(entries, key, data)
        /\ expirationTimes' = times
        /\ expirationInterval' = s.handle
        /\ timers' = s.timers
        /\ last' = Call("set", key, 0, FALSE)
        /\ track' \in {rec} \cup (IF track.key = key THEN {} ELSE {track})
        /\ UNCHANGED <<now, interval>>
        /\ UNCHANGED <<lruVars, redisVars>>

TTLGet(key) ==
    LET expirationTime == MapGet(expirationTimes, key)
    IN  /\ IF GetExpired(expirationTime, now)
           THEN /\ expirationTimes' = MapDelete(expirationTimes, key)
                /\ entries' = MapDelete(entries, key)
                /\ last' = Call("get", key, Undefined, FALSE)
           ELSE /\ last' = Call("get", key, MapGet(entries, key), FALSE)
                /\ UNCHANGED <<entries, expirationTimes>>
        /\ UNCHANGED <<now, interval, expirationInterval, timers, track>>
        /\ UNCHANGED <<lruVars, redisVars>>

\* (mutant) a delete that is the built-in Map's: the expiry index keeps the key
TTLDeleteValueOnly(key) ==
    /\ entries' = MapDelete(entries, key)
    /\ last' = Call("delete", key, 0, MapHas(entries, key))
    /\ track' = IF track.key = key THEN NoTrack ELSE track
    /\ UNCHANGED <<now, interval, expirationTimes, expirationInterval, timers>>
    /\ UNCHANGED <<lruVars, redisVars>>

TTLDelete(key) ==
    /\ expirationTimes' = MapDelete(expirationTimes, key)
    /\ entries' = MapDelete(entries, key)
    /\ last' = Call("delete", key, 0, MapHas(entries, key))
    /\ track' = IF track.key = key THEN NoTrack ELSE track
    /\ UNCHANGED <<now, interval, expirationInterval, timers>>
    /\ UNCHANGED <<lruVars, redisVars>>

\* (mutant) a clear that is the built-in Map's: the expiry index is kept
TTLClearValuesOnly ==
    /\ entries' = <<>>
    /\ last' = Call("clear", NoKey, 0, FALSE)
    /\ track' = NoTrack
    /\ UNCHANGED <<now, interval, expirationTimes, expirationInterval, timers>>
    /\ UNCHANGED <<lruVars, redisVars>>

\* (mutant) a clear of the expiry index alone: the values stay
TTLClearTimesOnly ==
    /\ expirationTimes' = <<>>
    /\ last' = Call("clear", NoKey, 0, FALSE)
    /\ track' = NoTrack
    /\ UNCHANGED <<now, interval, entries, expirationInterval, timers>>
    /\ UNCHANGED <<lruVars, redisVars>>

TTLClear ==
    /\ expirationTimes' = <<>>
    /\ entries' = <<>>
    /\ last' = Call("clear", NoKey, 0, FALSE)
    /\ track' = NoTrack
    /\ UNCHANGED <<now, interval, expirationInterval, timers>>
    /\ UNCHANGED <<lruVars, redisVars>>

\* (mutant) a callback that clears the timer and keeps the stale handle
SweepTickKeepsHandle(timer) ==
    LET gone == {expirationTimes[i].k : i \in
                    {j \in 1..Len(expirationTimes) :
                        SweepExpired(expirationTimes[j].v, now)}}
        times == MapDeleteKeys(expirationTimes, gone)
        again == (timers \ {timer}) \cup {[id |-> timer.id, due |-> timer.due + interval]}
    IN  /\ timer.due = now
        /\ expirationTimes' = times
        /\ entries' = MapDeleteKeys(entries, gone)
        /\ timers' = IF Len(times) = 0 THEN ClearInterval(again, expirationInterval) ELSE again
        /\ last' = Call("tick", NoKey, 0, FALSE)
        /\ UNCHANGED <<now, interval, track, expirationInterval>>
        /\ UNCHANGED <<lruVars, redisVars>>

\* (mutant) a callback that never clears its timer
SweepTickNeverCancels(timer) ==
    LET gone == {expirationTimes[i].k : i \in
                    {j \in 1..Len(expirationTimes) :
                        SweepExpired(expirationTimes[j].v, now)}}
    IN  /\ timer.due = now
        /\ expirationTimes' = MapDeleteKeys(expirationTimes, gone)
        /\ entries' = MapDeleteKeys(entries, gone)
        /\ timers' = (timers \ {timer}) \cup {[id |-> timer.id, due |-> timer.due + interval]}
        /\ last' = Call("tick", NoKey, 0, FALSE)
        /\ UNCHANGED <<now, interval, track, expirationInterval>>
        /\ UNCHANGED <<lruVars, redisVars>>

\* The callback of a timer that is due: the sweep, then the timer either
\* cancels itself or is rescheduled one period on.
SweepTick(timer) ==
    LET gone == {expirationTimes[i].k : i \in
                    {j \in 1..Len(expirationTimes) :
                        SweepExpired(expirationTimes[j].v, now)}}
        times == MapDeleteKeys(expirationTimes, gone)
        again == (timers \ {timer}) \cup {[id |-> timer.id, due |-> timer.due + interval]}
    IN  /\ timer.due = now
        /\ expirationTimes' = times
        /\ entries' = MapDeleteKeys(entries, gone)
        /\ IF Len(times) = 0
           THEN /\ timers' = ClearInterval(again, expirationInterval)
                /\ expirationInterval' = 0
           ELSE /\ timers' = again
                /\ UNCHANGED expirationInterval
        /\ last' = Call("tick", NoKey, 0, FALSE)
        /\ UNCHANGED <<now, interval, track>>
        /\ UNCHANGED <<lruVars, redisVars>>

\* Time passes; a timer that is due fires before the clock moves on.
AdvanceClock ==
    /\ now < MaxTime
    /\ \A x \in timers : x.due > now
    /\ now' = now + 1
    /\ last' = Call("wait", NoKey, 0, FALSE)
    /\ UNCHANGED <<interval, entries, expirationTimes, expirationInterval, timers, track>>
    /\ UNCHANGED <<lruVars, redisVars>>

TTLNext ==
    \/ \E key \in Keys, data \in Vals, ttl \in TTLs \cup {interval} : TTLSet(key, data, ttl)
    \/ \E key \in Keys : TTLGet(key)
    \/ \E key \in Keys : TTLDelete(key)
    \/ TTLClear
    \/ \E timer \in timers : SweepTick(timer)
    \/ AdvanceClock

SpecTTL == TTLInit /\ [][TTLNext]_vars

\* The event loop: time does not stop, and a timer that is due is run.
SpecTTLFair ==
    /\ SpecTTL
    /\ WF_vars(AdvanceClock)
    /\ WF_vars(\E timer \in timers : SweepTick(timer))

\* ---------------------------------------------------------------- CacheLRU
\* (mutant) the capacity test with > for >=
LRUFullLate(m, cap) == Len(m) > cap

\* `super.size >= this.capacity`
LRUFull(m, cap) == Len(m) >= cap

\* (mutant) an eviction of the newest entry
LRUEvictNewest(m) == IF Len(m) = 0 THEN m ELSE MapDelete(m, m[Len(m)].k)

\* (mutant) an eviction that deletes nothing, as super.delete(super.keys().next()) would
LRUEvictNothing(m) == m

\* `super.delete(super.keys().next().value)`: on an empty Map the first key
\* is undefined and nothing is deleted.
LRUEvict(m) == IF Len(m) = 0 THEN m ELSE MapDelete(m, m[1].k)

\* (mutant) a set that deletes the key before it stores it, as get does
LRUSetResultTouching(m, cap, key, value) ==
    MapSet(MapDelete(IF Len(m) >= cap THEN (IF Len(m) = 0 THEN m ELSE MapDelete(m, m[1].k)) ELSE m, key),
           key, value)

\* (mutant) a set that does not evict when it overwrites a present key
LRUSetResultNoEvictOnOverwrite(m, cap, key, value) ==
    MapSet(IF Len(m) >= cap /\ ~MapHas(m, key)
           THEN (IF Len(m) = 0 THEN m ELSE MapDelete(m, m[1].k))
           ELSE m,
           key, value)

\* the Map that set(key, value) leaves
LRUSetResult(m, cap, key, value) ==
    MapSet(IF LRUFull(m, cap) THEN LRUEvict(m) ELSE m, key, value)

\* (mutant) a get that stores the value back without deleting the key first
LRUTouchInPlace(m, key) == MapSet(m, key, MapGet(m, key))

\* the Map that get(key) leaves when the key is present
LRUTouch(m, key) == MapSet(MapDelete(m, key), key, MapGet(m, key))

LRUSet(key, value) ==
    /\ lru' = LRUSetResult(lru, capacity, key, value)
    /\ lruLast' = Call("set", key, 0, FALSE)
    /\ setRun' = IF Len(lru) = 0 THEN <<key>>
                 ELSE IF /\ setRun # <<>>
                         /\ Len(setRun) <= capacity
                         /\ \A i \in 1..Len(setRun) : setRun[i] # key
                      THEN Append(setRun, key)
                      ELSE <<>>
    /\ UNCHANGED capacity
    /\ UNCHANGED <<ttlVars, redisVars>>

\* (mutant) a get without the has test: a missing key is stored as undefined
LRUGetNoHasTest(key) ==
    /\ lru' = LRUTouch(lru, key)
    /\ lruLast' = Call("get", key, MapGet(lru, key), FALSE)
    /\ setRun' = <<>>
    /\ UNCHANGED capacity
    /\ UNCHANGED <<ttlVars, redisVars>>

LRUGet(key) ==
    /\ IF ~MapHas(lru, key)
       THEN /\ lruLast' = Call("get", key, Undefined, FALSE)
            /\ UNCHANGED lru
       ELSE /\ lru' = LRUTouch(lru, key)
            /\ lruLast' = Call("get", key, MapGet(lru, key), FALSE)
    /\ setRun' = <<>>
    /\ UNCHANGED capacity
    /\ UNCHANGED <<ttlVars, redisVars>>

\* delete and clear are the built-in Map's
LRUDelete(key) ==
    /\ lru' = MapDelete(lru, key)
    /\ lruLast' = Call("delete", key, 0, MapHas(lru, key))
    /\ setRun' = <<>>
    /\ UNCHANGED capacity
    /\ UNCHANGED <<ttlVars, redisVars>>

LRUClear ==
    /\ lru' = <<>>
    /\ lruLast' = Call("clear", 0, 0, FALSE)
    /\ setRun' = <<>>
    /\ UNCHANGED capacity
    /\ UNCHANGED <<ttlVars, redisVars>>

LRUNext ==
    \/ \E key \in LRUKeys, value \in LRUVals : LRUSet(key, value)
    \/ \E key \in LRUKeys : LRUGet(key)
    \/ \E key \in LRUKeys : LRUDelete(key)
    \/ LRUClear

SpecLRU == LRUInit /\ [][LRUNext]_vars

\* -------------------------------------------------------------- CacheREDIS
Identifier == "cache"
RedisTTLs == {0, 1}

\* `${this.identifier}:${key}`
PhysicalKey(key) == <<Identifier, key>>

\* JSON.stringify and JSON.parse of a value; no text is empty, and a missing
\* key reads as null, which is falsy like the empty text.
Stringify(value) == <<value>>
Parse(text) == text[1]
Null == <<>>
Truthy(text) == Len(text) > 0

\* the remote store's commands
RemoteGet(store, pk) ==
    IF \E r \in store : r.pk = pk
    THEN (CHOOSE r \in store : r.pk = pk).text
    ELSE Null
RemoteSet(store, pk, text, ex) ==
    {r \in store : r.pk # pk} \cup {[pk |-> pk, text |-> text, ex |-> ex]}
RemoteDel(store, pks) == {r \in store : r.pk \notin pks}
RemoteExists(store, pk) == IF \E r \in store : r.pk = pk THEN 1 ELSE 0
\* keys(`${this.identifier}:*`), in any order
RemoteKeys(store, prefix) == {r.pk : r \in {x \in store : x.pk[1] = prefix}}
Orderings(S) ==
    {f \in [1..Cardinality(S) -> S] : \A i, j \in 1..Cardinality(S) : i # j => f[i] # f[j]}

\* (mutant) a method without its try/catch: the error reaches the caller
TryRethrow(threw, value, fallback) ==
    [rejected |-> threw, value |-> IF threw THEN fallback ELSE value]

\* try { return value } catch (err) { console.error(err); return fallback }
TryCatch(threw, value, fallback) ==
    [rejected |-> FALSE, value |-> IF threw THEN fallback ELSE value]

\* an untouched CacheREDIS; the remote store may hold another instance's key
RedisInit ==
    /\ \E store \in {{}, {[pk |-> <<"other", "a">>, text |-> Stringify(1), ex |-> 0]}} :
            RedisNew(store)
    /\ TTLNew(0)
    /\ LRUNew(0)

\* A remote command that throws may or may not have been applied remotely.
RedisGet(key, threw) ==
    LET data == RemoteGet(remote, PhysicalKey(key))
        t == TryCatch(threw, IF Truthy(data) THEN Parse(data) ELSE Undefined, Undefined)
    IN  /\ redisLast' = Reply("get", threw, t.rejected, t.value, FALSE, <<>>)
        /\ UNCHANGED <<remote, ttlVars, lruVars>>

RedisSet(key, value, ttl, threw, applied) ==
    LET t == TryCatch(threw, TRUE, FALSE)
    IN  /\ threw \/ applied
        /\ remote' = IF applied
                     THEN RemoteSet(remote, PhysicalKey(key), Stringify(value),
                                    IF ttl > 0 THEN ttl ELSE 0)
                     ELSE remote
        /\ redisLast' = Reply("set", threw, t.rejected, 0, t.value, <<>>)
        /\ UNCHANGED <<ttlVars, lruVars>>

RedisDelete(key, threw, applied) ==
    LET removed == RemoteExists(remote, PhysicalKey(key))
        t == TryCatch(threw, removed = 1, FALSE)
    IN  /\ threw \/ applied
        /\ remote' = IF applied THEN RemoteDel(remote, {PhysicalKey(key)}) ELSE remote
        /\ redisLast' = Reply("delete", threw, t.rejected, 0, t.value, <<>>)
        /\ UNCHANGED <<ttlVars, lruVars>>

RedisHas(key, threw) ==
    LET t == TryCatch(threw, RemoteExists(remote, PhysicalKey(key)) = 1, FALSE)
    IN  /\ redisLast' = Reply("has", threw, t.rejected, 0, t.value, <<>>)
        /\ UNCHANGED <<remote, ttlVars, lruVars>>

\* failAt: 0 = no call throws, 1 = keys throws, i + 1 = the i-th get throws
RedisValues(keys, failAt) ==
    LET texts == [i \in 1..Len(keys) |-> RemoteGet(remote, keys[i])]
        found == SelectSeq(texts, Truthy)
        values == [i \in 1..Len(found) |-> Parse(found[i])]
        t == TryCatch(failAt > 0, values, <<>>)
    IN  /\ failAt <= Len(keys) + 1
        /\ redisLast' = Reply("values", failAt > 0, t.rejected, 0, FALSE, t.value)
        /\ UNCHANGED <<remote, ttlVars, lruVars>>

\* failAt: 0 = no call throws, 1 = keys throws, 2 = del throws
RedisClear(failAt, applied) ==
    LET keys == RemoteKeys(remote, Identifier)
        t == TryCatch(failAt > 0, 0, 0)
    IN  /\ failAt = 2 => keys # {}
        /\ applied = (failAt = 0) \/ (failAt = 2)
        /\ remote' = IF applied THEN RemoteDel(remote, keys) ELSE remote
        /\ redisLast' = Reply("clear", failAt > 0, t.rejected, t.value, FALSE, <<>>)
        /\ UNCHANGED <<ttlVars, lruVars>>

RedisSize(threw) ==
    LET t == TryCatch(threw, Cardinality(RemoteKeys(remote, Identifier)), 0)
    IN  /\ redisLast' = Reply("size", threw, t.rejected, t.value, FALSE, <<>>)
        /\ UNCHANGED <<remote, ttlVars, lruVars>>

RedisNext ==
    \/ \E key \in Keys, threw \in BOOLEAN : RedisGet(key, threw)
    \/ \E key \in Keys, value \in Vals, ttl \in RedisTTLs, threw, applied \in BOOLEAN :
            RedisSet(key, value, ttl, threw, applied)
    \/ \E key \in Keys, threw, applied \in BOOLEAN : RedisDelete(key, threw, applied)
    \/ \E key \in Keys, threw \in BOOLEAN : RedisHas(key, threw)
    \/ \E keys \in Orderings(RemoteKeys(remote, Identifier)), failAt \in 0..3 :
            RedisValues(keys, failAt)
    \/ \E failAt \in 0..2, applied \in BOOLEAN : RedisClear(failAt, applied)
    \/ \E threw \in BOOLEAN : RedisSize(threw)

SpecREDIS == RedisInit /\ [][RedisNext]_vars

\* ------------------------------------------------ one cache of any class
\* A program that constructs one cache, of any of the three classes, and
\* uses only that one.
Init == TTLInit \/ LRUInit \/ RedisInit

Next ==
    \/ (LRUNew(0) /\ RedisNew({}) /\ TTLNext)
    \/ (TTLNew(0) /\ RedisNew({}) /\ LRUNext)
    \/ (TTLNew(0) /\ LRUNew(0) /\ RedisNext)

Spec == Init /\ [][Next]_vars

\* ------------------------------------------------------ CacheTTL: claims
Max(x, y) == IF x >= y THEN x ELSE y

\* The last call was a get of the followed entry: track holds the set call
\* that stored it, and it was not overwritten, deleted or cleared since.
GetOfTracked == last.op = "get" /\ last.key = track.key

TrackExpiry == track.at + track.ttl

\* C1 (as stated): an entry stored with ttl > 0 at time t0 is returned by get
\* at every time t < t0 + ttl and is absent at every time t >= t0 + ttl.
C1_AbsentAtExpiry ==
    (GetOfTracked /\ track.ttl > 0) =>
        /\ now < TrackExpiry => last.ret = track.val
        /\ now >= TrackExpiry => last.ret = Undefined

\* C1 (amended): an entry stored with ttl > 0 at time t0 is returned by get
\* at every time t <= t0 + ttl and is absent at every time t > t0 + ttl, for
\* every sweep interval and whether or not a sweep tick ran in between.
C1_ReturnedThroughExpiry ==
    (GetOfTracked /\ track.ttl > 0) =>
        /\ now <= TrackExpiry => last.ret = track.val
        /\ now > TrackExpiry => last.ret = Undefined

\* C1 witness: a get at exactly t0 + ttl returns the stored value.
C1_Witness ==
    /\ GetOfTracked /\ track.ttl > 0
    /\ now = TrackExpiry
    /\ last.ret = track.val

\* C6: between operations the value store and the expiry index hold the
\* same keys, hence have the same size.
C6_StoresInLockstep ==
    /\ MapKeys(entries) = MapKeys(expirationTimes)
    /\ Len(entries) = Len(expirationTimes)

\* C6 witness: a sweep tick removed an entry and left another one.
C6_Witness ==
    /\ last.op = "tick"
    /\ Len(entries) = 1
    /\ track.key # NoKey /\ ~MapHas(entries, track.key)

\* C7: get never returns a stored value once the time is strictly greater
\* than set time + ttl, whatever the ttl; it returns absent and the key is
\* in neither store.
C7_NeverReturnsExpired ==
    (GetOfTracked /\ now > TrackExpiry) =>
        /\ last.ret = Undefined
        /\ ~MapHas(entries, last.key)
        /\ ~MapHas(expirationTimes, last.key)

\* C8: with a sweep interval I > 0 an entry is in neither store at any time
\* later than I time units after its expiry passed (after it was stored, when
\* it was stored already expired).
C8_SweptWithinInterval ==
    (interval > 0 /\ track.key # NoKey
        /\ (MapHas(entries, track.key) \/ MapHas(expirationTimes, track.key))) =>
        now <= Max(track.at, TrackExpiry) + interval

\* C8 witness: a sweep tick at expiry + I, the last moment allowed, after
\* which the entry is gone, with an interval longer than one time unit.
C8_Witness ==
    /\ interval > 1 /\ last.op = "tick"
    /\ track.key # NoKey /\ track.ttl >= 0
    /\ now = TrackExpiry + interval
    /\ ~MapHas(entries, track.key) /\ ~MapHas(expirationTimes, track.key)

\* C9: after set(k, v, ttl) with ttl < 0 every get(k), also one at the time
\* of the set, returns absent.
C9_NegativeTtlReadsAbsent ==
    (GetOfTracked /\ track.ttl < 0) => last.ret = Undefined

\* C10: delete(k) removes k from both stores, returns true exactly when k
\* was in the value store, and leaves every other entry and its expiry
\* timestamp as they were.
C10_DeleteFrame ==
    [][last'.op = "delete" =>
        /\ ~MapHas(entries', last'.key)
        /\ ~MapHas(expirationTimes', last'.key)
        /\ last'.ok = MapHas(entries, last'.key)
        /\ \A k \in Keys \ {last'.key} :
            /\ MapHas(entries', k) = MapHas(entries, k)
            /\ MapGet(entries', k) = MapGet(entries, k)
            /\ MapHas(expirationTimes', k) = MapHas(expirationTimes, k)
            /\ MapGet(expirationTimes', k) = MapGet(expirationTimes, k)
    ]_vars

\* C10 witness: a delete that returned true and left another entry behind.
C10_Witness ==
    /\ last.op = "delete" /\ last.ok
    /\ Len(entries) = 1 /\ Len(expirationTimes) = 1

\* the timer held in expirationInterval is scheduled
HeldTimerScheduled ==
    expirationInterval # 0 /\ \E t \in timers : t.id = expirationInterval

\* C14: with interval > 0, right after an operation that leaves the expiry
\* index empty (a sweep tick, a lazily expiring get, delete, clear) no
\* sweep timer is scheduled and expirationInterval is undefined.
C14_NoTimerOnEmptyIndex ==
    (/\ interval > 0
     /\ last.op \in {"tick", "get", "delete", "clear"}
     /\ Len(expirationTimes) = 0) =>
        (expirationInterval = 0 /\ timers = {})

\* C15: with interval > 0, whenever the expiry index is not empty the sweep
\* timer is scheduled; the set that follows a tick which cancelled the timer
\* on an empty index schedules it again, one interval on.
C15_TimerWhileTracked ==
    [][ /\ (interval > 0 /\ Len(expirationTimes') > 0) => HeldTimerScheduled'
        /\ (/\ interval > 0 /\ last.op = "tick" /\ expirationInterval = 0
            /\ last'.op = "set") =>
              /\ expirationInterval' # 0
              /\ timers' = {[id |-> expirationInterval', due |-> now + interval]}
    ]_vars

\* C15 witness: a sweep tick has found the index empty and cancelled the timer.
C15_Witness ==
    /\ interval > 0 /\ last.op = "tick"
    /\ expirationInterval = 0 /\ timers = {}

\* C16: at most one sweep timer is scheduled, and a scheduled timer is the
\* one held in expirationInterval: every other timer ever created has been
\* cancelled.
C16_AtMostOneTimer ==
    /\ Cardinality(timers) <= 1
    /\ \A t \in timers : t.id = expirationInterval

\* C16 witness: a set made while the timer was already scheduled: the timer
\* is due sooner than one interval after the set.
C16_Witness ==
    /\ last.op = "set"
    /\ \E t \in timers : t.due < now + interval

\* C19: an entry stored with ttl >= 0 at time t0, and not overwritten,
\* deleted or cleared, is in both stores at every time t <= t0 + ttl, and a
\* get at such a time returns its value, for every sweep interval.
C19_KeptThroughExpiry ==
    (track.key # NoKey /\ track.ttl >= 0 /\ now <= TrackExpiry) =>
        /\ MapHas(entries, track.key)
        /\ MapGet(entries, track.key) = track.val
        /\ MapHas(expirationTimes, track.key)
        /\ MapGet(expirationTimes, track.key) = TrackExpiry
        /\ GetOfTracked => last.ret = track.val

\* C19 witness: a sweep tick ran at the very expiry time of an entry.
C19_Witness ==
    /\ last.op = "tick" /\ track.key # NoKey /\ track.ttl >= 0
    /\ now = TrackExpiry
    /\ MapHas(entries, track.key)

\* the index is empty while a sweep timer is scheduled to run within the
\* time the clock covers
EmptyButScheduled ==
    /\ interval > 0 /\ Len(expirationTimes) = 0
    /\ timers # {} /\ \A t \in timers : t.due <= MaxTime

\* C20: with interval > 0, when the expiry index has become empty while the
\* sweep timer is scheduled, the timer is due within one interval and, unless
\* a set fills the index again, it is cancelled at that tick: eventually no
\* timer is scheduled.
C20_TimerCancelsItself ==
    /\ [](\A t \in timers : now <= t.due /\ t.due <= now + interval)
    /\ EmptyButScheduled ~> (timers = {} \/ Len(expirationTimes) > 0)

\* C20 witness: delete, clear or a lazily expiring get has emptied the index
\* and the sweep timer is still scheduled.
C20_Witness ==
    /\ last.op \in {"delete", "clear", "get"}
    /\ EmptyButScheduled

\* ------------------------------------------------------ CacheLRU: claims
KeyAt(m, i) == m[i].k

LastKey(m) == m[Len(m)].k

\* key x comes before key y in the iteration order of m (both present)
Before(m, x, y) ==
    \E i, j \in 1..Len(m) : i < j /\ m[i].k = x /\ m[j].k = y

\* C2: with capacity C >= 1, set on C+1 distinct keys k1..k(C+1) from an
\* empty cache, with no other call in between, leaves exactly k2..k(C+1)
\* present (size C) and k1 absent.
C2_OldestOfRunEvicted ==
    (capacity >= 1 /\ Len(setRun) = capacity + 1) =>
        /\ MapKeys(lru) = {setRun[i] : i \in 2..(capacity + 1)}
        /\ Len(lru) = capacity
        /\ ~MapHas(lru, setRun[1])

\* C2 witness: a run of C+1 sets of distinct keys on a cache of capacity >= 2.
C2_Witness ==
    /\ capacity >= 2
    /\ Len(setRun) = capacity + 1
    /\ lruLast.op = "set"

\* C3: a get of a present key makes it the most recently used, so that when
\* the next set of a new key evicts, the oldest entry goes and not the key
\* just read; with capacity 2, set(1,1), set(2,2), get(1), set(3,3) ends with
\* exactly <<1:1, 3:3>> (keys 1, 2, 3 for a, b, c).
C3_GetPromotes ==
    [][ /\ (lruLast'.op = "get" /\ lruLast'.ret # Undefined) =>
              LastKey(lru') = lruLast'.key
        /\ (/\ lruLast.op = "get" /\ lruLast.ret # Undefined /\ Len(lru) >= 2
            /\ lruLast'.op = "set" /\ ~MapHas(lru, lruLast'.key)
            /\ Len(lru) >= capacity) =>
              /\ MapHas(lru', lruLast.key)
              /\ MapGet(lru', lruLast.key) = lruLast.ret
              /\ KeyAt(lru, 1) # lruLast.key
              /\ ~MapHas(lru', KeyAt(lru, 1))
        /\ (/\ capacity = 2 /\ setRun = <<1, 2>>
            /\ lru = <<[k |-> 1, v |-> 1], [k |-> 2, v |-> 2]>>
            /\ lruLast'.op = "get" /\ lruLast'.key = 1) =>
              /\ lruLast'.ret = 1
              /\ lru' = <<[k |-> 2, v |-> 2], [k |-> 1, v |-> 1]>>
        /\ (/\ capacity = 2 /\ lruLast.op = "get" /\ lruLast.key = 1
            /\ lru = <<[k |-> 2, v |-> 2], [k |-> 1, v |-> 1]>>
            /\ lruLast'.op = "set" /\ lruLast'.key = 3 /\ MapGet(lru', 3) = 3) =>
              lru' = <<[k |-> 1, v |-> 1], [k |-> 3, v |-> 3]>>
    ]_vars

\* C3 witness: in a full cache of capacity 2 holding 2 then 1, get(1) has
\* just returned 1, so the next set of a new key must evict.
C3_Witness ==
    /\ capacity = 2
    /\ lruLast.op = "get" /\ lruLast.key = 1 /\ lruLast.ret = 1
    /\ lru = <<[k |-> 2, v |-> 2], [k |-> 1, v |-> 1]>>

\* C4 (as stated): right after set(k, v), k is the last key in iteration
\* order, whether k is new or was present, for every capacity >= 1.
C4_SetKeyIsLast ==
    (capacity >= 1 /\ lruLast.op = "set") => LastKey(lru) = lruLast.key

\* C4 (amended): right after set(k, v), k is the last key in iteration order
\* when k was not present before the call, or was the oldest key of a cache
\* at capacity (it is evicted and stored again); a key that was present and
\* is not evicted keeps its place among the remaining keys.
C4_NewKeyIsLast ==
    [][(capacity >= 1 /\ lruLast'.op = "set") =>
        LET key == lruLast'.key IN
        /\ MapHas(lru', key)
        /\ IF ~MapHas(lru, key) \/ (Len(lru) >= capacity /\ KeyAt(lru, 1) = key)
           THEN LastKey(lru') = key
           ELSE \A k \in MapKeys(lru') \ {key} :
                    /\ Before(lru', k, key) = Before(lru, k, key)
                    /\ Before(lru', key, k) = Before(lru, key, k)
    ]_vars

\* C4 witness: a set has overwritten a key that is not the last one.
C4_Witness ==
    /\ capacity >= 1 /\ lruLast.op = "set"
    /\ Len(lru) >= 2
    /\ LastKey(lru) # lruLast.key

\* C5: with capacity C >= 1 the cache never holds more than C entries.
C5_SizeWithinCapacity ==
    capacity >= 1 => Len(lru) <= capacity

\* C5 witness: a set on a cache that was at capacity left it at capacity.
C5_Witness ==
    /\ capacity >= 1 /\ Len(lru) = capacity
    /\ lruLast.op = "set" /\ Len(setRun) = capacity + 1

\* C11: get(k) of an absent key returns absent and leaves the contents and
\* the iteration order as they were; get(k) of a present key returns its
\* value, keeps the set of keys and every stored value, and keeps the order
\* of the other keys among themselves: only k moves, to the tail.
C11_GetFrame ==
    [][lruLast'.op = "get" =>
        LET key == lruLast'.key IN
        IF ~MapHas(lru, key)
        THEN /\ lruLast'.ret = Undefined
             /\ lru' = lru
        ELSE /\ lruLast'.ret = MapGet(lru, key)
             /\ MapKeys(lru') = MapKeys(lru)
             /\ Len(lru') = Len(lru)
             /\ \A k \in MapKeys(lru) : MapGet(lru', k) = MapGet(lru, k)
             /\ \A x, y \in MapKeys(lru) \ {key} : Before(lru', x, y) = Before(lru, x, y)
             /\ LastKey(lru') = key
    ]_vars

\* C11 witness: a get that hit in a cache of three entries.
C11_Witness ==
    /\ lruLast.op = "get" /\ lruLast.ret # Undefined
    /\ Len(lru) >= 3

\* C17 (amended): set(k, v) on a non-empty cache whose entry count is >=
\* capacity removes exactly one entry, the first in iteration order, before
\* it stores k, also when k is present (overwriting a key that is not the
\* oldest of a full cache leaves capacity - 1 entries); on an empty cache, or
\* one whose entry count is < capacity, it removes nothing.
C17_EvictsFirstWhenFull ==
    [][lruLast'.op = "set" =>
        LET key == lruLast'.key
            kept == IF Len(lru) >= capacity /\ Len(lru) > 0
                    THEN MapKeys(lru) \ {KeyAt(lru, 1)}
                    ELSE MapKeys(lru)
        IN  /\ MapKeys(lru') = kept \cup {key}
            /\ MapGet(lru', key) \in LRUVals
            /\ \A k \in kept \ {key} : MapGet(lru', k) = MapGet(lru, k)
            /\ (/\ capacity >= 1 /\ Len(lru) >= capacity
                /\ MapHas(lru, key) /\ KeyAt(lru, 1) # key) =>
                    (Len(lru') = capacity - 1 /\ ~MapHas(lru', KeyAt(lru, 1)))
            /\ (Len(lru) < capacity) => (MapKeys(lru) \subseteq MapKeys(lru'))
    ]_vars

\* C17 (as stated): set(k, v) on a cache whose entry count is >= capacity
\* removes exactly one entry, the first in iteration order, whatever the
\* capacity and the contents.
C17_AlwaysEvictsWhenFull ==
    [][(lruLast'.op = "set" /\ Len(lru) >= capacity) =>
        /\ Len(lru) >= 1
        /\ MapKeys(lru') = (MapKeys(lru) \ {KeyAt(lru, 1)}) \cup {lruLast'.key}
    ]_vars

\* C17 witness: a set has overwritten a key that is not the last one in a
\* cache that now holds capacity - 1 entries.
C17_Witness ==
    /\ lruLast.op = "set" /\ capacity >= 3
    /\ Len(lru) = capacity - 1
    /\ LastKey(lru) # lruLast.key

\* C18: with capacity 0 every set removes the one entry there is, if any, and
\* stores its own: after every set the cache holds exactly one entry, the
\* one just set, and it never holds more.
C18_CapacityZeroHoldsOne ==
    capacity = 0 =>
        /\ Len(lru) <= 1
        /\ lruLast.op = "set" => (Len(lru) = 1 /\ KeyAt(lru, 1) = lruLast.key)

\* C18 witness: with capacity 0, a set on a cache that held an entry.
C18_Witness ==
    /\ capacity = 0 /\ lruLast.op = "set"
    /\ setRun = <<>>
    /\ Len(lru) = 1

\* ---------------------------------------------------- both caches: claims
\* C12: for CacheTTL and for CacheLRU, after clear() the size is 0 (for
\* CacheTTL the expiry index is empty too), and a clear() right after a
\* clear() leaves the whole state as it is.
C12_ClearIdempotent ==
    [][ /\ last'.op = "clear" => (Len(entries') = 0 /\ Len(expirationTimes') = 0)
        /\ lruLast'.op = "clear" => Len(lru') = 0
        /\ (last.op = "clear" /\ last'.op = "clear") =>
              UNCHANGED <<now, interval, entries, expirationTimes,
                          expirationInterval, timers>>
        /\ (lruLast.op = "clear" /\ lruLast'.op = "clear") =>
              UNCHANGED <<capacity, lru>>
    ]_vars

\* C12 witness: a CacheTTL was cleared while its sweep timer was scheduled.
C12_Witness ==
    /\ last.op = "clear"
    /\ Len(entries) = 0 /\ Len(expirationTimes) = 0
    /\ timers # {}

\* ----------------------------------------------------- CacheREDIS: claims
\* C13: when a remote call throws during get, set, delete, has, values,
\* clear or size, the error does not reach the caller and the promise
\* resolves to undefined (get), false (set, delete, has), the empty list
\* (values), 0 (size), nothing (clear).
C13_FailuresBecomeDefaults ==
    redisLast.failed =>
        /\ ~redisLast.rejected
        /\ redisLast.op = "get" => redisLast.ret = Undefined
        /\ redisLast.op \in {"set", "delete", "has"} => redisLast.ok = FALSE
        /\ redisLast.op = "values" => redisLast.list = <<>>
        /\ redisLast.op = "size" => redisLast.ret = 0
        /\ redisLast.op = "clear" => redisLast.ret = 0

\* C13 witness: values failed although the store holds two keys of the
\* instance.
C13_Witness ==
    /\ redisLast.op = "values" /\ redisLast.failed
    /\ Cardinality(RemoteKeys(remote, Identifier)) = 2
====
